---- MODULE Spec2Model ----
(***************************************************************************)
(* The ticket-sales store of analytics/models.py (Organizer, Event,        *)
(* TicketType, User, Order, TicketPurchase) and the four reporting queries *)
(* of analytics/event_analytics.py over it.                                *)
(*                                                                         *)
(* A table is a function from the ids of its rows to records of the        *)
(* columns.  A nullable column holds NULL (the empty tuple) or <<v>>.      *)
(* Decimal amounts are counted in whole currency units.                    *)
(***************************************************************************)
EXTENDS Integers, Sequences, FiniteSets, TLC

VARIABLES
    organizers,   \* Organizer rows: id -> [name]
    events,       \* Event rows: id -> [name, organizer, is_published, end_time, capacity]
    ticketTypes,  \* TicketType rows: id -> [event, price, quantity_available]
    users,        \* the ids of the auth User rows
    orders,       \* Order rows: id -> [customer, total_amount, is_paid]
    purchases,    \* TicketPurchase rows: id -> [order, ticket_type, quantity, purchase_price_per_unit]
    ret,          \* what the latest operation returned (or raised)
    call,         \* the get_upcoming_events_summary call in progress, query by query
    views         \* the summaries of the store states seen during that call

store == <<organizers, events, ticketTypes, users, orders, purchases>>
vars == <<store, ret, call, views>>

\* No call is in progress: the operations below run one at a time.
Idle == [pc |-> "idle"]
Sequential == call = Idle /\ UNCHANGED <<call, views>>

(***************************************************************************)
(* Bounds of the explored stores.                                          *)
(***************************************************************************)
MaxCapacity == 3
MaxAvailable == 2
MaxQuantity == 2
MaxLimit == 2

\* TicketType.price, and the prices purchases were paid at.
ListPrice == 9
PaidPrices == {5, 7}

(***************************************************************************)
(* SQL values and aggregates.                                              *)
(***************************************************************************)
NULL == <<>>
Some(v) == <<v>>
Val(x) == x[1]

Coalesce(x, default) == IF x = NULL THEN default ELSE Val(x)

RECURSIVE Total(_)
Total(f) ==
    IF DOMAIN f = {} THEN 0
    ELSE LET r == CHOOSE r \in DOMAIN f : TRUE
         IN f[r] + Total([s \in DOMAIN f \ {r} |-> f[s]])

\* SUM over the rows f maps to their value: NULL when there is no row.
Sum(f) == IF DOMAIN f = {} THEN NULL ELSE Some(Total(f))

Max(a, b) == IF a >= b THEN a ELSE b

\* timezone.now() of the call; end_time is compared with it.
Now == 1
EndTimes == {Now - 1, Now}

\* The orders in which a query without ORDER BY may yield the rows S.
Orderings(S) ==
    {s \in [1..Cardinality(S) -> S] : \A i, j \in DOMAIN s : i # j => s[i] # s[j]}

(***************************************************************************)
(* Deleting rows (models.py's on_delete rules).  A delete() first collects *)
(* what the cascades reach and raises ProtectedError, before it removes    *)
(* anything, when a collected TicketType is referenced by a TicketPurchase.*)
(***************************************************************************)
Database ==
    [organizers |-> organizers, events |-> events, ticketTypes |-> ticketTypes,
     users |-> users, orders |-> orders, purchases |-> purchases]

Without(table, ids) == [r \in DOMAIN table \ ids |-> table[r]]

\* Event.organizer is on_delete=CASCADE.
EventsCollected(db, model, ids) ==
    IF model = "Organizer"
    THEN {e \in DOMAIN db.events : db.events[e].organizer \in ids}
    ELSE IF model = "Event" THEN ids ELSE {}

\* TicketType.event is on_delete=CASCADE.
TicketTypesCollected(db, model, ids) ==
    IF model = "TicketType" THEN ids
    ELSE {t \in DOMAIN db.ticketTypes :
            db.ticketTypes[t].event \in EventsCollected(db, model, ids)}

\* TicketPurchase.order is on_delete=CASCADE.
PurchasesCollected(db, model, ids) ==
    IF model = "Order"
    THEN {p \in DOMAIN db.purchases : db.purchases[p].order \in ids}
    ELSE IF model = "TicketPurchase" THEN ids ELSE {}

\* A variant for on_delete=DO_NOTHING: nothing protects a ticket type.
ProtectedByNothing(db, types) == {}

\* TicketPurchase.ticket_type is on_delete=PROTECT: the purchases that keep
\* the ticket types from being deleted.
ProtectedBy(db, types) ==
    {p \in DOMAIN db.purchases : db.purchases[p].ticket_type \in types}

\* Order.customer is on_delete=SET_NULL.
SetNull(db, model, ids) ==
    [o \in DOMAIN db.orders |->
        IF model = "User" /\ db.orders[o].customer # NULL
                          /\ Val(db.orders[o].customer) \in ids
        THEN [db.orders[o] EXCEPT !.customer = NULL] ELSE db.orders[o]]

\* model.objects.filter(id__in=ids).delete(): the error raised, if any, and the
\* database after it.
Delete(db, model, ids) ==
    IF ProtectedBy(db, TicketTypesCollected(db, model, ids)) # {}
    THEN [raised |-> Some("ProtectedError"), db |-> db]
    ELSE [raised |-> NULL,
          db |-> [organizers |-> Without(db.organizers,
                                         IF model = "Organizer" THEN ids ELSE {}),
                  events |-> Without(db.events, EventsCollected(db, model, ids)),
                  ticketTypes |-> Without(db.ticketTypes,
                                          TicketTypesCollected(db, model, ids)),
                  users |-> db.users \ (IF model = "User" THEN ids ELSE {}),
                  orders |-> Without(SetNull(db, model, ids),
                                     IF model = "Order" THEN ids ELSE {}),
                  purchases |-> Without(db.purchases,
                                        PurchasesCollected(db, model, ids))]]

Commit(db) ==
    /\ organizers' = db.organizers
    /\ events' = db.events
    /\ ticketTypes' = db.ticketTypes
    /\ users' = db.users
    /\ orders' = db.orders
    /\ purchases' = db.purchases

Rows(db, model) ==
    CASE model = "Organizer" -> DOMAIN db.organizers
      [] model = "Event" -> DOMAIN db.events
      [] model = "TicketType" -> DOMAIN db.ticketTypes
      [] model = "User" -> db.users
      [] model = "Order" -> DOMAIN db.orders
      [] model = "TicketPurchase" -> DOMAIN db.purchases

delete(model, id) ==
    /\ Sequential
    /\ id \in Rows(Database, model)
    /\ LET done == Delete(Database, model, {id})
       IN /\ Commit(done.db)
          /\ ret' = [op |-> "delete", model |-> model, ids |-> {id},
                     raised |-> done.raised]

delete_user(u) == delete("User", u)

(***************************************************************************)
(* get_upcoming_events_summary                                             *)
(***************************************************************************)
UpcomingEvents ==
    {e \in DOMAIN events : events[e].is_published /\ events[e].end_time >= Now}

\* A variant that also counts the purchases of unpaid orders.
PurchasesOfEvent(e) ==
    {p \in DOMAIN purchases : ticketTypes[purchases[p].ticket_type].event = e}

\* TicketPurchase.objects.filter(ticket_type__event=event, order__is_paid=True)
PaidPurchasesOfEvent(e) ==
    {p \in DOMAIN purchases :
        /\ ticketTypes[purchases[p].ticket_type].event = e
        /\ orders[purchases[p].order].is_paid}

total_tickets_sold(e) ==
    Coalesce(Sum([p \in PaidPurchasesOfEvent(e) |-> purchases[p].quantity]), 0)

total_revenue(e) ==
    Coalesce(Sum([p \in PaidPurchasesOfEvent(e) |->
                    Coalesce(Some(purchases[p].quantity), 0)
                  * Coalesce(Some(purchases[p].purchase_price_per_unit), 0)]), 0)

total_available(e) ==
    LET types == {t \in DOMAIN ticketTypes : ticketTypes[t].event = e}
    IN Coalesce(Sum([t \in types |-> ticketTypes[t].quantity_available]), 0)

\* A variant without the clamp at 0.
tickets_remaining_unclamped(capacity, available, sold) ==
    IF capacity # NULL THEN Val(capacity) - sold ELSE available - sold

tickets_remaining(capacity, available, sold) ==
    IF capacity # NULL
    THEN Max(Val(capacity) - sold, 0)
    ELSE Max(available - sold, 0)

EventSummary(e) ==
    [event_id |-> e,
     event_name |-> events[e].name,
     total_tickets_sold |-> total_tickets_sold(e),
     total_revenue |-> total_revenue(e),
     tickets_remaining |->
        tickets_remaining(events[e].capacity, total_available(e), total_tickets_sold(e)),
     organizer_name |-> organizers[events[e].organizer].name]

get_upcoming_events_summary ==
    /\ Sequential
    /\ \E ord \in Orderings(UpcomingEvents) :
          ret' = [op |-> "get_upcoming_events_summary",
                  value |-> [i \in DOMAIN ord |-> EventSummary(ord[i])]]
    /\ UNCHANGED store

(***************************************************************************)
(* The summary's tickets_remaining: stores that vary capacity, the ticket  *)
(* types' event and quantity_available, and what was bought and paid.      *)
(* Event 1 is published and not over, event 2 may be unpublished or over;  *)
(* ticket type 1 is event 1's; purchase p is on order p.                   *)
(***************************************************************************)
Capacities == {NULL} \cup {Some(c) : c \in 0..MaxCapacity}

\* Organizer.name is unique.
OrganizerName(o) == <<"Organizer", o>>

TheOrganizers == [o \in {1} |-> [name |-> OrganizerName(o)]]

EventRows(names, caps, flags) ==
    [e \in {1, 2} |->
        [name |-> names[e], organizer |-> 1,
         is_published |-> IF e = 1 THEN TRUE ELSE flags[1],
         end_time |-> IF e = 1 THEN Now ELSE flags[2],
         capacity |-> caps[e]]]

OrderRows(paid) ==
    [o \in {1, 2} |->
        [customer |-> IF o = 1 THEN NULL ELSE Some(1), total_amount |-> 10,
         is_paid |-> paid[o]]]

InitRemaining ==
    /\ organizers = TheOrganizers
    /\ \E caps \in [{1, 2} -> Capacities], flags \in BOOLEAN \X EndTimes :
          events = EventRows([e \in {1, 2} |-> "A"], caps, flags)
    /\ \E ev \in {1, 2}, avail \in [{1, 2} -> 0..MaxAvailable] :
          ticketTypes = [t \in {1, 2} |->
              [event |-> IF t = 1 THEN 1 ELSE ev, price |-> ListPrice,
               quantity_available |-> avail[t]]]
    /\ users = {1}
    /\ \E paid \in [{1, 2} -> BOOLEAN] : orders = OrderRows(paid)
    /\ \E row \in [{1, 2} -> {1, 2} \X (1..MaxQuantity)] :
          purchases = [p \in {1, 2} |->
              [order |-> p, ticket_type |-> row[p][1], quantity |-> row[p][2],
               purchase_price_per_unit |-> 5]]
    /\ ret = [op |-> "none"]
    /\ call = Idle
    /\ views = {}

SpecRemaining == InitRemaining /\ [][get_upcoming_events_summary]_vars

TicketTypesOf(e) == {t \in DOMAIN ticketTypes : ticketTypes[t].event = e}

Entries == {ret.value[i] : i \in DOMAIN ret.value}

\* C1: every entry of the summary has tickets_remaining =
\* max(capacity - total_tickets_sold, 0) when the event's capacity is set and
\* max(total_available - total_tickets_sold, 0) when it is not, total_available
\* being the sum of quantity_available over the event's ticket types; so it is
\* never negative.
C1_TicketsRemaining ==
    ret.op = "get_upcoming_events_summary" =>
        \A x \in Entries :
            LET e == x.event_id
                available == Total([t \in TicketTypesOf(e) |->
                                       ticketTypes[t].quantity_available])
                ceiling == IF events[e].capacity # NULL
                           THEN Val(events[e].capacity) ELSE available
            IN /\ x.tickets_remaining >= 0
               /\ x.tickets_remaining =
                     IF ceiling >= x.total_tickets_sold
                     THEN ceiling - x.total_tickets_sold ELSE 0

\* An oversold event with a capacity, and an event without capacity whose
\* ticket types have tickets left, both in one summary.
C1_Witness ==
    /\ ret.op = "get_upcoming_events_summary"
    /\ \E x \in Entries :
          /\ events[x.event_id].capacity # NULL
          /\ x.total_tickets_sold > Val(events[x.event_id].capacity)
          /\ x.tickets_remaining = 0
    /\ \E x \in Entries :
          /\ events[x.event_id].capacity = NULL
          /\ x.total_tickets_sold > 0
          /\ x.tickets_remaining > 0

(***************************************************************************)
(* The summary's total_tickets_sold and total_revenue: stores that vary    *)
(* what was bought, at which price, on which order, and what was paid.     *)
(* Ticket type t is event t's; order 1 is anonymous, order 2 is user 1's;  *)
(* purchases 1 and 2 are on orders 1 and 2, purchase 3 on either.          *)
(***************************************************************************)
InitSales ==
    /\ organizers = TheOrganizers
    /\ \E flags \in BOOLEAN \X EndTimes :
          events = EventRows([e \in {1, 2} |-> "A"], [e \in {1, 2} |-> NULL], flags)
    /\ ticketTypes = [t \in {1, 2} |->
            [event |-> t, price |-> ListPrice, quantity_available |-> MaxAvailable]]
    /\ users = {1}
    /\ \E paid \in [{1, 2} -> BOOLEAN] : orders = OrderRows(paid)
    /\ \E row \in [{1, 2, 3} -> {1, 2} \X (1..MaxQuantity) \X PaidPrices], o3 \in {1, 2} :
          purchases = [p \in {1, 2, 3} |->
              [order |-> IF p = 3 THEN o3 ELSE p, ticket_type |-> row[p][1],
               quantity |-> row[p][2], purchase_price_per_unit |-> row[p][3]]]
    /\ ret = [op |-> "none"]
    /\ call = Idle
    /\ views = {}

SpecSales == InitSales /\ [][get_upcoming_events_summary]_vars

\* The purchases that count for event e: on one of its ticket types, on a paid order.
SoldPurchases(e) ==
    {p \in DOMAIN purchases :
        /\ purchases[p].ticket_type \in TicketTypesOf(e)
        /\ \E o \in DOMAIN orders : o = purchases[p].order /\ orders[o].is_paid}

\* C2: every entry of the summary has total_tickets_sold = the sum of quantity,
\* and total_revenue = the sum of quantity x purchase_price_per_unit, over the
\* purchases of the event's ticket types on paid orders (0 when there are none).
C2_SoldAndRevenue ==
    ret.op = "get_upcoming_events_summary" =>
        \A x \in Entries :
            LET S == SoldPurchases(x.event_id)
            IN /\ x.total_tickets_sold = Total([p \in S |-> purchases[p].quantity])
               /\ x.total_revenue =
                     Total([p \in S |-> purchases[p].quantity
                                         * purchases[p].purchase_price_per_unit])
               /\ S = {} => x.total_tickets_sold = 0 /\ x.total_revenue = 0

\* An entry whose event has a paid anonymous purchase and an unpaid one, while a
\* paid purchase of another event exists: only the first is counted.
C2_Witness ==
    /\ ret.op = "get_upcoming_events_summary"
    /\ \E x \in Entries, p, q, r \in DOMAIN purchases :
          /\ p \in SoldPurchases(x.event_id)
          /\ orders[purchases[p].order].customer = NULL
          /\ purchases[q].ticket_type \in TicketTypesOf(x.event_id)
          /\ ~orders[purchases[q].order].is_paid
          /\ \E e \in DOMAIN events : e # x.event_id /\ r \in SoldPurchases(e)
          /\ x.total_tickets_sold = purchases[p].quantity
          /\ x.total_revenue > 0

(***************************************************************************)
(* get_top_selling_ticket_types                                            *)
(***************************************************************************)
\* The rows of TicketType LEFT JOIN purchases LEFT JOIN order that pass
\* filter=Q(purchases__order__is_paid=True), for ticket type t.
PaidPurchasesOfType(t) ==
    {p \in DOMAIN purchases :
        purchases[p].ticket_type = t /\ orders[purchases[p].order].is_paid}

units_sold(t) ==
    Coalesce(Sum([p \in PaidPurchasesOfType(t) |-> purchases[p].quantity]), 0)

\* A variant that sorts ascending: order_by('units_sold').
OrderedByUnitsSoldAscending(ord) ==
    \A i, j \in DOMAIN ord : i < j => units_sold(ord[i]) <= units_sold(ord[j])

\* order_by('-units_sold'): the database orders ties as it likes.
OrderedByUnitsSold(ord) ==
    \A i, j \in DOMAIN ord : i < j => units_sold(ord[i]) >= units_sold(ord[j])

TicketTypeRanking(t) ==
    [id |-> t, units_sold |-> units_sold(t),
     event_name |-> events[ticketTypes[t].event].name]

\* queryset[:n]: the first n rows, all of them when there are fewer, and an
\* error for a negative n.
Slice(ord, n) == [i \in 1..(IF n < Len(ord) THEN n ELSE Len(ord)) |-> ord[i]]

get_top_selling_ticket_types(num_types) ==
    /\ Sequential
    /\ IF num_types < 0
       THEN ret' = [op |-> "get_top_selling_ticket_types", num_types |-> num_types,
                    raised |-> "ValueError"]
       ELSE \E ord \in Orderings(DOMAIN ticketTypes) :
               /\ OrderedByUnitsSold(ord)
               /\ ret' = [op |-> "get_top_selling_ticket_types",
                          num_types |-> num_types,
                          value |-> [i \in DOMAIN Slice(ord, num_types) |->
                                        TicketTypeRanking(ord[i])]]
    /\ UNCHANGED store

(***************************************************************************)
(* Stores the ranking is applied to: up to three ticket types, three       *)
(* purchases on them (none without ticket types), orders paid or not.      *)
(***************************************************************************)
InitTop ==
    /\ organizers = TheOrganizers
    /\ events = EventRows([e \in {1, 2} |-> IF e = 1 THEN "A" ELSE "B"],
                          [e \in {1, 2} |-> NULL], <<TRUE, Now>>)
    /\ \E n \in 0..3 :
          /\ ticketTypes = [t \in 1..n |->
                [event |-> IF t = 1 THEN 1 ELSE 2, price |-> ListPrice,
                 quantity_available |-> MaxAvailable]]
          /\ \E row \in [(IF n = 0 THEN {} ELSE {1, 2, 3}) -> (1..n) \X (1..MaxQuantity)] :
                purchases = [p \in DOMAIN row |->
                    [order |-> IF p = 1 THEN 1 ELSE 2, ticket_type |-> row[p][1],
                     quantity |-> row[p][2], purchase_price_per_unit |-> 5]]
    /\ users = {1}
    /\ \E paid \in [{1, 2} -> BOOLEAN] : orders = OrderRows(paid)
    /\ ret = [op |-> "none"]
    /\ call = Idle
    /\ views = {}

NextTop == \E num_types \in -1..MaxLimit : get_top_selling_ticket_types(num_types)

SpecTop == InitTop /\ [][NextTop]_vars

\* The units of ticket type t bought on paid orders.
PaidUnits(t) ==
    Total([p \in {q \in DOMAIN purchases :
                     /\ purchases[q].ticket_type = t
                     /\ \E o \in DOMAIN orders : o = purchases[q].order /\ orders[o].is_paid}
           |-> purchases[p].quantity])

\* C6: for a positive limit the ranking holds min(limit, number of ticket types)
\* distinct ticket types, each with units_sold = its units bought on paid orders
\* (0 if none), in non-increasing order of units_sold, and no ticket type left
\* out has more units_sold than one returned.
C6_TopSelling ==
    (ret.op = "get_top_selling_ticket_types" /\ ret.num_types > 0) =>
        /\ "value" \in DOMAIN ret
        /\ LET v == ret.value
               n == Cardinality(DOMAIN ticketTypes)
               returned == {v[i].id : i \in DOMAIN v}
           IN /\ Len(v) = IF ret.num_types < n THEN ret.num_types ELSE n
              /\ returned \subseteq DOMAIN ticketTypes
              /\ \A i, j \in DOMAIN v : i # j => v[i].id # v[j].id
              /\ \A i \in DOMAIN v : v[i].units_sold = PaidUnits(v[i].id)
              /\ \A i, j \in DOMAIN v : i < j => v[i].units_sold >= v[j].units_sold
              /\ \A t \in DOMAIN ticketTypes \ returned :
                    \A i \in DOMAIN v : PaidUnits(t) <= v[i].units_sold

\* A ranking cut by the limit, led by a ticket type with sales, while a ticket
\* type without paid purchases was left out.
C6_Witness ==
    /\ ret.op = "get_top_selling_ticket_types"
    /\ ret.num_types > 0
    /\ Len(ret.value) = ret.num_types
    /\ Len(ret.value) < Cardinality(DOMAIN ticketTypes)
    /\ ret.value[1].units_sold > 0
    /\ \E t \in DOMAIN ticketTypes :
          /\ \A i \in DOMAIN ret.value : ret.value[i].id # t
          /\ PaidPurchasesOfType(t) = {}
          /\ \E p \in DOMAIN purchases : purchases[p].ticket_type = t

(***************************************************************************)
(* get_customer_purchase_statistics                                        *)
(***************************************************************************)
user_qs(customer_id) == {u \in users : u = customer_id}

\* The rows of User LEFT JOIN orders for the user: one per order of theirs.
OrdersOf(customer_id) ==
    {o \in DOMAIN orders : orders[o].customer = Some(customer_id)}

\* Count('orders', distinct=True)
total_orders_placed(customer_id) == Cardinality(OrdersOf(customer_id))

\* A variant that sums the unpaid orders too.
total_amount_of_all_orders(customer_id) ==
    Coalesce(Sum([o \in OrdersOf(customer_id) |-> orders[o].total_amount]), 0)

\* Coalesce(Sum('orders__total_amount', filter=Q(orders__is_paid=True)), 0)
total_amount_spent(customer_id) ==
    Coalesce(Sum([o \in {o \in OrdersOf(customer_id) : orders[o].is_paid} |->
                    orders[o].total_amount]), 0)

\* TicketPurchase.objects.filter(order__customer_id=customer_id, order__is_paid=True)
PaidPurchasesOfCustomer(customer_id) ==
    {p \in DOMAIN purchases :
        /\ orders[purchases[p].order].customer = Some(customer_id)
        /\ orders[purchases[p].order].is_paid}

EventNameOf(p) == events[ticketTypes[purchases[p].ticket_type].event].name

\* .values('ticket_type__event__name').annotate(total=Sum('quantity'))
\* .order_by('-total'): one row per event NAME, ties in the database's order.
event_counts(customer_id) ==
    LET rows == PaidPurchasesOfCustomer(customer_id)
        names == {EventNameOf(p) : p \in rows}
        total(n) == Val(Sum([p \in {q \in rows : EventNameOf(q) = n} |->
                               purchases[p].quantity]))
    IN {[i \in DOMAIN ord |-> [name |-> ord[i], total |-> total(ord[i])]] :
          ord \in {s \in Orderings(names) :
                     \A i, j \in DOMAIN s : i < j => total(s[i]) >= total(s[j])}}

\* A variant that hands back a blank user when no row matches.
first_or_blank(qs) == IF qs = {} THEN Some(0) ELSE Some(CHOOSE u \in qs : TRUE)

\* QuerySet.first(): None when no row matches.
first(qs) == IF qs = {} THEN NULL ELSE Some(CHOOSE u \in qs : TRUE)

get_customer_purchase_statistics(customer_id) ==
    /\ Sequential
    /\ \E counts \in event_counts(customer_id) :
          LET most_purchased_event_name ==
                  IF counts # <<>> THEN Some(counts[1].name) ELSE NULL
              user == first(user_qs(customer_id))
          IN ret' = [op |-> "get_customer_purchase_statistics",
                     customer_id |-> customer_id,
                     value |-> IF user # NULL
                               THEN Some([id |-> Val(user),
                                          total_orders_placed |->
                                              total_orders_placed(customer_id),
                                          total_amount_spent |->
                                              total_amount_spent(customer_id),
                                          most_purchased_event_name |->
                                              most_purchased_event_name])
                               ELSE NULL]
    /\ UNCHANGED store

(***************************************************************************)
(* Stores the customer statistics are applied to: users 1 and 2, three     *)
(* orders of either or of nobody, with amounts 10, 20 and 40, two          *)
(* purchases; users may be deleted, and id 3 never names a user.           *)
(***************************************************************************)
OrderAmount(o) == IF o = 1 THEN 10 ELSE IF o = 2 THEN 20 ELSE 40

InitCustomer ==
    /\ organizers = TheOrganizers
    /\ events = EventRows([e \in {1, 2} |-> IF e = 1 THEN "A" ELSE "B"],
                          [e \in {1, 2} |-> NULL], <<TRUE, Now>>)
    /\ ticketTypes = [t \in {1, 2} |->
            [event |-> t, price |-> ListPrice, quantity_available |-> MaxAvailable]]
    /\ users = {1, 2}
    /\ \E row \in [{1, 2, 3} -> {NULL, Some(1), Some(2)} \X BOOLEAN] :
          orders = [o \in {1, 2, 3} |->
              [customer |-> row[o][1], total_amount |-> OrderAmount(o),
               is_paid |-> row[o][2]]]
    /\ \E row \in [{1, 2} -> {1, 2} \X (1..MaxQuantity)], o2 \in {1, 2, 3} :
          purchases = [p \in {1, 2} |->
              [order |-> IF p = 1 THEN 1 ELSE o2, ticket_type |-> row[p][1],
               quantity |-> row[p][2], purchase_price_per_unit |-> 5]]
    /\ ret = [op |-> "none"]
    /\ call = Idle
    /\ views = {}

NextCustomer ==
    \/ \E customer_id \in {1, 2, 3} : get_customer_purchase_statistics(customer_id)
    \/ \E u \in {1, 2} : delete_user(u)

SpecCustomer == InitCustomer /\ [][NextCustomer]_vars

\* C3: for an existing customer, total_orders_placed is the number of their
\* orders, paid or not, and total_amount_spent the sum of total_amount over
\* their paid orders, each counted once; 0 when they have no paid order.
C3_OrdersAndSpent ==
    (ret.op = "get_customer_purchase_statistics" /\ ret.customer_id \in users) =>
        /\ ret.value # NULL
        /\ LET c == ret.customer_id
               mine == {o \in DOMAIN orders : orders[o].customer = Some(c)}
               paid == {o \in mine : orders[o].is_paid}
           IN /\ Val(ret.value).total_orders_placed = Cardinality(mine)
              /\ Val(ret.value).total_amount_spent =
                    Total([o \in paid |-> orders[o].total_amount])
              /\ paid = {} => Val(ret.value).total_amount_spent = 0

\* A customer with a paid order that holds two purchases and an unpaid order:
\* two orders placed, the paid one's amount spent.
C3_Witness ==
    /\ ret.op = "get_customer_purchase_statistics"
    /\ ret.customer_id \in users
    /\ \E o, u \in OrdersOf(ret.customer_id) :
          /\ orders[o].is_paid /\ ~orders[u].is_paid
          /\ \A p \in DOMAIN purchases : purchases[p].order = o
          /\ Val(ret.value).total_orders_placed = 2
          /\ Val(ret.value).total_amount_spent = orders[o].total_amount

\* C9: for an id that matches no user the statistics are None, nothing is
\* raised, and the call leaves the store as it was.
C9_UnknownCustomer ==
    /\ [](ret.op = "get_customer_purchase_statistics" /\ ret.customer_id \notin users
            => "value" \in DOMAIN ret /\ ret.value = NULL)
    /\ [][ret'.op = "get_customer_purchase_statistics" => store' = store]_vars

\* None for the id of a deleted user, while a paid purchase sits on an order
\* that has no customer any more.
C9_Witness ==
    /\ ret.op = "get_customer_purchase_statistics"
    /\ ret.customer_id = 1
    /\ users = {2}
    /\ ret.value = NULL
    /\ \E p \in DOMAIN purchases :
          /\ orders[purchases[p].order].customer = NULL
          /\ orders[purchases[p].order].is_paid

(***************************************************************************)
(* The customer's most purchased event: three events, of which 1 and 2 may *)
(* share a name; ticket type t is event t's; four purchases of user 1's    *)
(* two orders (order 2 may be anonymous), the fourth on any ticket type.   *)
(***************************************************************************)
InitFavourite ==
    /\ organizers = TheOrganizers
    /\ \E name2 \in {"A", "B"} :
          events = [e \in {1, 2, 3} |->
              [name |-> IF e = 1 THEN "A" ELSE IF e = 2 THEN name2 ELSE "B",
               organizer |-> 1, is_published |-> TRUE, end_time |-> Now,
               capacity |-> NULL]]
    /\ ticketTypes = [t \in {1, 2, 3} |->
            [event |-> t, price |-> ListPrice, quantity_available |-> MaxAvailable]]
    /\ users = {1}
    /\ \E paid \in [{1, 2} -> BOOLEAN], c2 \in {NULL, Some(1)} :
          orders = [o \in {1, 2} |->
              [customer |-> IF o = 1 THEN Some(1) ELSE c2,
               total_amount |-> OrderAmount(o), is_paid |-> paid[o]]]
    /\ \E row \in [{1, 2, 3, 4} -> {1, 2} \X (1..MaxQuantity)], t4 \in {1, 2, 3} :
          purchases = [p \in {1, 2, 3, 4} |->
              [order |-> row[p][1], ticket_type |-> IF p = 4 THEN t4 ELSE p,
               quantity |-> row[p][2], purchase_price_per_unit |-> 5]]
    /\ ret = [op |-> "none"]
    /\ call = Idle
    /\ views = {}

NextFavourite ==
    \E customer_id \in {1, 2} : get_customer_purchase_statistics(customer_id)

SpecFavourite == InitFavourite /\ [][NextFavourite]_vars

\* The quantity customer c bought of event e's ticket types on paid orders.
BoughtOfEvent(c, e) ==
    Total([p \in {q \in DOMAIN purchases :
                     /\ purchases[q].ticket_type \in TicketTypesOf(e)
                     /\ orders[purchases[q].order].customer = Some(c)
                     /\ orders[purchases[q].order].is_paid}
           |-> purchases[p].quantity])

\* C4: for an existing customer, most_purchased_event_name is the name of an
\* event with the largest quantity bought by the customer on paid orders, the
\* quantities being summed per event; it is None exactly when the customer has
\* no purchase on a paid order.
C4_MostPurchasedEvent ==
    (ret.op = "get_customer_purchase_statistics" /\ ret.value # NULL) =>
        LET c == ret.customer_id
            most == Val(ret.value).most_purchased_event_name
        IN IF \A e \in DOMAIN events : BoughtOfEvent(c, e) = 0
           THEN most = NULL
           ELSE /\ most # NULL
                /\ \E e \in DOMAIN events :
                      /\ events[e].name = Val(most)
                      /\ \A f \in DOMAIN events :
                            BoughtOfEvent(c, f) <= BoughtOfEvent(c, e)

(***************************************************************************)
(* get_events_with_low_capacity_remaining                                  *)
(*                                                                         *)
(* 100 * (F('capacity') - Coalesce(Sum(...), 0)) / F('capacity') is        *)
(* evaluated by the database on integer operands.  SQLite and PostgreSQL   *)
(* divide integers with truncation toward zero, MySQL yields a decimal     *)
(* rounded to four places; a zero divisor gives NULL on SQLite and MySQL   *)
(* and an error on PostgreSQL.  Percentages are held in units of 1/Scale.  *)
(***************************************************************************)
Backends == {"sqlite", "postgresql", "mysql"}
Scale == 10000

TruncDiv(a, b) == IF a >= 0 THEN a \div b ELSE -((-a) \div b)
RoundDiv(a, b) == IF a >= 0 THEN (2 * a + b) \div (2 * b)
                             ELSE -((2 * (-a) + b) \div (2 * b))

DivisionByZero == <<"raised", "division by zero">>

Divide(backend, a, b) ==
    IF b = 0
    THEN IF backend = "postgresql" THEN DivisionByZero ELSE NULL
    ELSE IF backend = "mysql"
         THEN Some(RoundDiv(a * Scale, b))
         ELSE Some(TruncDiv(a, b) * Scale)

\* Event.objects.filter(capacity__isnull=False)
EventsWithCapacity == {e \in DOMAIN events : events[e].capacity # NULL}

\* Coalesce(Sum('ticket_types__purchases__quantity',
\*              filter=Q(ticket_types__purchases__order__is_paid=True)), 0)
tickets_sold(e) ==
    Coalesce(Sum([p \in {q \in DOMAIN purchases :
                            /\ ticketTypes[purchases[q].ticket_type].event = e
                            /\ orders[purchases[q].order].is_paid}
                  |-> purchases[p].quantity]), 0)

percentage_tickets_remaining(backend, e) ==
    Divide(backend, 100 * (Val(events[e].capacity) - tickets_sold(e)),
           Val(events[e].capacity))

\* .filter(percentage_tickets_remaining__lte=threshold_percentage): a NULL
\* percentage passes no comparison.
LowCapacityEvents(backend, threshold_percentage) ==
    {e \in EventsWithCapacity :
        /\ percentage_tickets_remaining(backend, e) # NULL
        /\ Val(percentage_tickets_remaining(backend, e)) <= threshold_percentage * Scale}

get_events_with_low_capacity_remaining(backend, threshold_percentage) ==
    /\ Sequential
    /\ IF \E e \in EventsWithCapacity :
            percentage_tickets_remaining(backend, e) = DivisionByZero
       THEN ret' = [op |-> "get_events_with_low_capacity_remaining",
                    backend |-> backend, threshold |-> threshold_percentage,
                    raised |-> "division by zero"]
       ELSE ret' = [op |-> "get_events_with_low_capacity_remaining",
                    backend |-> backend, threshold |-> threshold_percentage,
                    value |-> {[id |-> e, tickets_sold |-> tickets_sold(e),
                                percentage_tickets_remaining |->
                                    Val(percentage_tickets_remaining(backend, e))] :
                               e \in LowCapacityEvents(backend, threshold_percentage)}]
    /\ UNCHANGED store

(***************************************************************************)
(* Stores the low-capacity query is applied to: two events with or without *)
(* capacity, ticket type 1 of event 1 and ticket type 2 of either, one     *)
(* purchase on each of two orders.                                         *)
(***************************************************************************)
Thresholds == {-50, 0, 10, 33, 50, 66, 100}

InitLow ==
    /\ organizers = TheOrganizers
    /\ \E caps \in [{1, 2} -> Capacities] :
          events = EventRows([e \in {1, 2} |-> "A"], caps, <<TRUE, Now>>)
    /\ \E ev \in {1, 2} :
          ticketTypes = [t \in {1, 2} |->
              [event |-> IF t = 1 THEN 1 ELSE ev, price |-> ListPrice,
               quantity_available |-> MaxAvailable]]
    /\ users = {1}
    /\ \E paid \in [{1, 2} -> BOOLEAN] : orders = OrderRows(paid)
    /\ \E row \in [{1, 2} -> {1, 2} \X (1..MaxQuantity)] :
          purchases = [p \in {1, 2} |->
              [order |-> p, ticket_type |-> row[p][1], quantity |-> row[p][2],
               purchase_price_per_unit |-> 5]]
    /\ ret = [op |-> "none"]
    /\ call = Idle
    /\ views = {}

NextLow ==
    \E backend \in Backends, threshold_percentage \in Thresholds :
        get_events_with_low_capacity_remaining(backend, threshold_percentage)

SpecLow == InitLow /\ [][NextLow]_vars

\* C5: the query returns exactly the events with a capacity for which
\* 100 x (capacity - tickets_sold) / capacity, as a real number and unclamped,
\* is <= threshold, tickets_sold being the quantity bought of the event's ticket
\* types on paid orders; and no event without capacity.  (Stated for the events
\* whose capacity is not 0, where the percentage exists, and for the calls that
\* returned.)
C5_LowCapacity ==
    (ret.op = "get_events_with_low_capacity_remaining" /\ "value" \in DOMAIN ret) =>
        LET returned == {x.id : x \in ret.value}
        IN /\ \A e \in returned : events[e].capacity # NULL
           /\ \A e \in DOMAIN events :
                 (events[e].capacity # NULL /\ Val(events[e].capacity) > 0) =>
                    LET capacity == Val(events[e].capacity)
                        sold == Total([p \in SoldPurchases(e) |-> purchases[p].quantity])
                    IN e \in returned <=>
                          100 * (capacity - sold) <= ret.threshold * capacity

(***************************************************************************)
(* The store's life: rows are created, deleted, and the sample-data        *)
(* generator wipes and repopulates every table.  A new row gets the id     *)
(* after the largest one of its table, within the table's id set.          *)
(***************************************************************************)
StoreIds == [Organizer |-> {1}, Event |-> {1, 2}, TicketType |-> {1, 2},
             User |-> {1}, Order |-> {1, 2}, TicketPurchase |-> {1, 2}]

NextId(ids) == IF ids = {} THEN 1 ELSE 1 + CHOOSE m \in ids : \A i \in ids : i <= m

Insert(table, row) == LET id == NextId(DOMAIN table)
                      IN [r \in DOMAIN table \cup {id} |->
                             IF r = id THEN row ELSE table[r]]

NewOrganizer(id) == [name |-> OrganizerName(id)]
NewEvent(organizer, capacity) ==
    [name |-> "A", organizer |-> organizer, is_published |-> TRUE,
     end_time |-> Now, capacity |-> capacity]
NewTicketType(event) ==
    [event |-> event, price |-> ListPrice, quantity_available |-> MaxAvailable]
NewOrder(customer, is_paid) ==
    [customer |-> customer, total_amount |-> 10, is_paid |-> is_paid]
NewPurchase(order, ticket_type, quantity) ==
    [order |-> order, ticket_type |-> ticket_type, quantity |-> quantity,
     purchase_price_per_unit |-> ListPrice]

create_organizer ==
    /\ Sequential
    /\ NextId(DOMAIN organizers) \in StoreIds.Organizer
    /\ organizers' = Insert(organizers, NewOrganizer(NextId(DOMAIN organizers)))
    /\ ret' = [op |-> "create", model |-> "Organizer"]
    /\ UNCHANGED <<events, ticketTypes, users, orders, purchases>>

create_event(organizer) ==
    /\ Sequential
    /\ NextId(DOMAIN events) \in StoreIds.Event
    /\ organizer \in DOMAIN organizers
    /\ events' = Insert(events, NewEvent(organizer, NULL))
    /\ ret' = [op |-> "create", model |-> "Event"]
    /\ UNCHANGED <<organizers, ticketTypes, users, orders, purchases>>

create_ticket_type(event) ==
    /\ Sequential
    /\ NextId(DOMAIN ticketTypes) \in StoreIds.TicketType
    /\ event \in DOMAIN events
    /\ ticketTypes' = Insert(ticketTypes, NewTicketType(event))
    /\ ret' = [op |-> "create", model |-> "TicketType"]
    /\ UNCHANGED <<organizers, events, users, orders, purchases>>

create_user ==
    /\ Sequential
    /\ NextId(users) \in StoreIds.User
    /\ users' = users \cup {NextId(users)}
    /\ ret' = [op |-> "create", model |-> "User"]
    /\ UNCHANGED <<organizers, events, ticketTypes, orders, purchases>>

create_order(customer, is_paid) ==
    /\ Sequential
    /\ NextId(DOMAIN orders) \in StoreIds.Order
    /\ IF customer = NULL THEN TRUE ELSE Val(customer) \in users
    /\ orders' = Insert(orders, NewOrder(customer, is_paid))
    /\ ret' = [op |-> "create", model |-> "Order"]
    /\ UNCHANGED <<organizers, events, ticketTypes, users, purchases>>

InsertPurchase(order, ticket_type) ==
    /\ NextId(DOMAIN purchases) \in StoreIds.TicketPurchase
    /\ order \in DOMAIN orders
    /\ ticket_type \in DOMAIN ticketTypes
    /\ purchases' = Insert(purchases, NewPurchase(order, ticket_type, 1))
    /\ ret' = [op |-> "create", model |-> "TicketPurchase"]
    /\ UNCHANGED <<organizers, events, ticketTypes, users, orders>>

create_purchase(order, ticket_type) ==
    Sequential /\ InsertPurchase(order, ticket_type)

(***************************************************************************)
(* generate_sample_data: Command.handle.  The deletes run in the order of  *)
(* the code, each its own statement, and the first error ends the command. *)
(* The rows it then creates are cut down to one organizer, one user, one   *)
(* event with two ticket types, and one order with one purchase (the code  *)
(* makes 3, 10, 5 with 2 each, and 30 with 1 to 3 each), with the code's   *)
(* random choices of capacity, customer, paid flag, ticket type, quantity. *)
(***************************************************************************)
WipeOrder == <<"Organizer", "Event", "TicketType", "Order", "TicketPurchase", "User">>

RECURSIVE Wipe(_, _)
Wipe(db, i) ==
    IF i > Len(WipeOrder) THEN [raised |-> NULL, db |-> db]
    ELSE LET done == Delete(db, WipeOrder[i], Rows(db, WipeOrder[i]))
         IN IF done.raised # NULL THEN done ELSE Wipe(done.db, i + 1)

Populate(db, capacity, customer, is_paid, ticket_type, quantity) ==
    LET orgs == Insert(db.organizers, NewOrganizer(NextId(DOMAIN db.organizers)))
        org == NextId(DOMAIN db.organizers)
        user == NextId(db.users)
        evs == Insert(db.events, NewEvent(org, capacity))
        ev == NextId(DOMAIN db.events)
        types == Insert(Insert(db.ticketTypes, NewTicketType(ev)), NewTicketType(ev))
        order == NextId(DOMAIN db.orders)
    IN [organizers |-> orgs,
        events |-> evs,
        ticketTypes |-> types,
        users |-> db.users \cup {user},
        orders |-> Insert(db.orders,
                          NewOrder(IF customer THEN Some(user) ELSE NULL, is_paid)),
        purchases |-> Insert(db.purchases,
                             NewPurchase(order,
                                         NextId(DOMAIN db.ticketTypes) + ticket_type,
                                         quantity))]

generate_sample_data ==
    LET wiped == Wipe(Database, 1)
    IN /\ Sequential
       /\ IF wiped.raised # NULL
          THEN /\ Commit(wiped.db)
               /\ ret' = [op |-> "generate_sample_data", raised |-> wiped.raised]
          ELSE \E capacity \in {NULL, Some(MaxCapacity)}, customer, is_paid \in BOOLEAN,
                  ticket_type \in {0, 1}, quantity \in 1..MaxQuantity :
                  /\ Commit(Populate(wiped.db, capacity, customer, is_paid,
                                      ticket_type, quantity))
                  /\ ret' = [op |-> "generate_sample_data", raised |-> NULL]

Models == {"Organizer", "Event", "TicketType", "User", "Order", "TicketPurchase"}

InitStore ==
    /\ organizers = <<>>
    /\ events = <<>>
    /\ ticketTypes = <<>>
    /\ users = {}
    /\ orders = <<>>
    /\ purchases = <<>>
    /\ ret = [op |-> "none"]
    /\ call = Idle
    /\ views = {}

NextStore ==
    \/ create_organizer
    \/ \E organizer \in StoreIds.Organizer : create_event(organizer)
    \/ \E event \in StoreIds.Event : create_ticket_type(event)
    \/ create_user
    \/ \E customer \in {NULL} \cup {Some(u) : u \in StoreIds.User}, is_paid \in BOOLEAN :
          create_order(customer, is_paid)
    \/ \E order \in StoreIds.Order, ticket_type \in StoreIds.TicketType :
          create_purchase(order, ticket_type)
    \/ \E model \in Models, id \in {1, 2} : delete(model, id)
    \/ generate_sample_data

SpecStore == InitStore /\ [][NextStore]_vars

\* The ticket types a delete of the rows ids of a model reaches by cascade.
ReachedTicketTypes(model, ids) ==
    CASE model = "TicketType" -> ids \cap DOMAIN ticketTypes
      [] model = "Event" -> {t \in DOMAIN ticketTypes : ticketTypes[t].event \in ids}
      [] model = "Organizer" ->
            {t \in DOMAIN ticketTypes : events[ticketTypes[t].event].organizer \in ids}
      [] OTHER -> {}

\* C7: every purchase references an existing ticket type and an existing order;
\* a delete that reaches, directly or by cascade from its event or organizer, a
\* ticket type some purchase references fails and leaves the store unchanged;
\* deleting an order removes exactly its purchases; deleting a user removes no
\* order and no purchase and sets the customer of the user's orders to null.
C7_ReferentialProtection ==
    /\ [](\A p \in DOMAIN purchases :
            /\ purchases[p].ticket_type \in DOMAIN ticketTypes
            /\ purchases[p].order \in DOMAIN orders)
    /\ [][ret'.op = "delete" =>
            LET model == ret'.model
                ids == ret'.ids
            IN /\ (\E p \in DOMAIN purchases :
                     purchases[p].ticket_type \in ReachedTicketTypes(model, ids))
                     => (ret'.raised # NULL /\ store' = store)
               /\ model = "Order" =>
                     /\ ret'.raised = NULL
                     /\ DOMAIN orders' = DOMAIN orders \ ids
                     /\ purchases' = [p \in {q \in DOMAIN purchases :
                                               purchases[q].order \notin ids}
                                      |-> purchases[p]]
               /\ model = "User" =>
                     /\ ret'.raised = NULL
                     /\ purchases' = purchases
                     /\ orders' = [o \in DOMAIN orders |->
                            IF orders[o].customer \in {Some(u) : u \in ids}
                            THEN [orders[o] EXCEPT !.customer = NULL]
                            ELSE orders[o]]]_vars

\* The delete of an organizer failed because a purchase references a ticket
\* type of one of its events.
C7_Witness ==
    /\ ret.op = "delete"
    /\ ret.model = "Organizer"
    /\ ret.raised = Some("ProtectedError")
    /\ \E p \in DOMAIN purchases :
          events[ticketTypes[purchases[p].ticket_type].event].organizer \in ret.ids

\* C10: the sample-data generator completes from every store state, and leaves
\* the tables holding only the rows it generated.
C10_GeneratorCompletes ==
    ret.op = "generate_sample_data" =>
        /\ ret.raised = NULL
        /\ Cardinality(DOMAIN organizers) = 1
        /\ Cardinality(DOMAIN events) = 1
        /\ Cardinality(DOMAIN ticketTypes) = 2
        /\ Cardinality(DOMAIN orders) = 1
        /\ Cardinality(DOMAIN purchases) = 1

(***************************************************************************)
(* get_upcoming_events_summary, query by query, beside writers.  The       *)
(* function opens no transaction: the event query and, per event, the      *)
(* three aggregates are separate statements, and other connections may     *)
(* commit between them.  views collects, for every store state between the *)
(* call's first query and its return, what the summary of that one state   *)
(* would be.                                                               *)
(***************************************************************************)
View ==
    [e \in DOMAIN events |->
        [total_tickets_sold |-> total_tickets_sold(e),
         total_revenue |-> total_revenue(e),
         tickets_remaining |->
            tickets_remaining(events[e].capacity, total_available(e),
                              total_tickets_sold(e))]]

\* for event in events.prefetch_related(...): the events are fetched once.
summary_events ==
    /\ call = Idle
    /\ \E ord \in Orderings(UpcomingEvents) :
          call' = [pc |-> IF ord = <<>> THEN "return" ELSE "total_tickets_sold",
                   pending |-> ord, result |-> <<>>, sold |-> 0, revenue |-> 0]
    /\ views' = {View}
    /\ UNCHANGED <<store, ret>>

summary_total_tickets_sold ==
    /\ call.pc = "total_tickets_sold"
    /\ call' = [call EXCEPT !.sold = total_tickets_sold(Head(call.pending)),
                             !.pc = "total_revenue"]
    /\ UNCHANGED <<store, ret, views>>

summary_total_revenue ==
    /\ call.pc = "total_revenue"
    /\ call' = [call EXCEPT !.revenue = total_revenue(Head(call.pending)),
                             !.pc = "total_available"]
    /\ UNCHANGED <<store, ret, views>>

\* The total_available query, tickets_remaining and result.append.
summary_total_available ==
    /\ call.pc = "total_available"
    /\ LET e == Head(call.pending)
           entry == [event_id |-> e,
                     event_name |-> events[e].name,
                     total_tickets_sold |-> call.sold,
                     total_revenue |-> call.revenue,
                     tickets_remaining |->
                        tickets_remaining(events[e].capacity, total_available(e),
                                          call.sold),
                     organizer_name |-> organizers[events[e].organizer].name]
       IN call' = [call EXCEPT !.result = Append(call.result, entry),
                               !.pending = Tail(call.pending),
                               !.pc = IF Tail(call.pending) = <<>>
                                      THEN "return" ELSE "total_tickets_sold"]
    /\ UNCHANGED <<store, ret, views>>

summary_return ==
    /\ call.pc = "return"
    /\ ret' = [op |-> "get_upcoming_events_summary", value |-> call.result]
    /\ call' = Idle
    /\ UNCHANGED <<store, views>>

\* What another connection commits is seen by the queries that follow.
Observed ==
    /\ views' = IF call = Idle THEN views ELSE views \cup {View'}
    /\ UNCHANGED call

\* The paid flag of an order goes from false to true.
pay_order(o) ==
    /\ o \in DOMAIN orders
    /\ ~orders[o].is_paid
    /\ orders' = [orders EXCEPT ![o].is_paid = TRUE]
    /\ ret' = [op |-> "pay_order", id |-> o]
    /\ UNCHANGED <<organizers, events, ticketTypes, users, purchases>>
    /\ Observed

concurrent_create_purchase(order, ticket_type) ==
    InsertPurchase(order, ticket_type) /\ Observed

\* Event 1 has a capacity and event 2 has none, ticket type t is event t's,
\* one purchase exists and a second may be added.
InitConcurrent ==
    /\ organizers = TheOrganizers
    /\ events = EventRows([e \in {1, 2} |-> "A"],
                          [e \in {1, 2} |-> IF e = 1 THEN Some(MaxCapacity) ELSE NULL],
                          <<TRUE, Now>>)
    /\ ticketTypes = [t \in {1, 2} |-> NewTicketType(t)]
    /\ users = {1}
    /\ \E paid \in [{1, 2} -> BOOLEAN] : orders = OrderRows(paid)
    /\ \E t \in {1, 2}, quantity \in 1..MaxQuantity, price \in PaidPrices :
          purchases = [p \in {1} |->
              [order |-> 1, ticket_type |-> t, quantity |-> quantity,
               purchase_price_per_unit |-> price]]
    /\ ret = [op |-> "none"]
    /\ call = Idle
    /\ views = {}

NextConcurrent ==
    \/ summary_events
    \/ summary_total_tickets_sold
    \/ summary_total_revenue
    \/ summary_total_available
    \/ summary_return
    \/ \E o \in StoreIds.Order : pay_order(o)
    \/ \E order \in StoreIds.Order, ticket_type \in StoreIds.TicketType :
          concurrent_create_purchase(order, ticket_type)

SpecConcurrent == InitConcurrent /\ [][NextConcurrent]_vars

\* C8: every entry a call of get_upcoming_events_summary returns has its
\* total_tickets_sold, total_revenue and tickets_remaining equal to those of one
\* single store state that existed during the call.
C8_AtomicSummary ==
    (ret.op = "get_upcoming_events_summary" /\ call = Idle) =>
        \A x \in Entries :
            \E v \in views :
                /\ x.total_tickets_sold = v[x.event_id].total_tickets_sold
                /\ x.total_revenue = v[x.event_id].total_revenue
                /\ x.tickets_remaining = v[x.event_id].tickets_remaining

====
